---- MODULE Spec2Model ----
(***************************************************************************)
(* Client-side session and authentication-flow manager of Authing.        *)
(*                                                                         *)
(*   services/api.ts   Transport and the authenticated request pipeline   *)
(*                     (fetchWithTimeout, createHeaders, handleResponse,  *)
(*                     handleAuthError, request)                          *)
(*   services/auth.ts  authService: the endpoints of the auth API         *)
(*   services/users.ts userService: ordinary authenticated endpoints      *)
(*   stores/auth.ts    useAuthStore: the session controller               *)
(*   pages/auth/qr-login  QRLoginPage: the out-of-band login poller       *)
(*                                                                         *)
(* JavaScript is single-threaded: code between two awaits runs as one     *)
(* step.  Every network exchange is a suspension point, so one pipeline   *)
(* call is a sequence of steps (first attempt sent, first response,       *)
(* refresh response, retry response) that interleave with the steps of    *)
(* the other calls in flight.                                             *)
(***************************************************************************)
EXTENDS Integers, Sequences, FiniteSets, TLC

\* ------------------------------------------------------------------ bounds
\* number of pipeline calls that can be in flight at the same time
MaxCalls == 2
\* number of operations issued in one behaviour
MaxIssued == 2
MaxPageCalls == 3
MaxSignIns == 2

\* ------------------------------------------------------------------ values
\* null / undefined of the source
Null == "null"
\* error.status of an Error that carries no status (timeout, TypeError, new Error)
NoStatus == 0
\* a response body without a message field
NoMessage == ""

\* credential pairs the server can issue (login, register, refresh)
TokenPairs ==
  { [access_token |-> "A1", refresh_token |-> "R1"],
    [access_token |-> "A2", refresh_token |-> "R2"] }
\* user records the server can return
Users == {"u7", "u8"}

\* HTTP statuses of failure responses
FailureStatuses == {401, 500}
\* message fields of failure bodies
BodyMessages == {NoMessage, "denied"}

\* endpoints, as the path segments of the string the services pass to request
LoginUrl == <<"api", "v1", "auth", "login">>
RegisterUrl == <<"api", "v1", "auth", "register">>
RefreshUrl == <<"api", "v1", "auth", "refresh">>
UserPoolsUrl == <<"api", "v1", "users", "pools">>
LogoutUrl == <<"api", "v1", "auth", "logout">>
OtpLoginUrl == <<"api", "v1", "auth", "otp", "login">>
CurrentUserUrl == <<"api", "v1", "users", "me">>
QRCreateUrl == <<"api", "v1", "auth", "qr", "create">>
\* `/api/v1/auth/qr/${scene_id}/status`
QRStatusUrl(scene_id) == <<"api", "v1", "auth", "qr", scene_id, "status">>
\* the scene_id in the path of a status query
SceneOf(url) == url[5]

\* operations that issue a pipeline call
Ops == {"login", "register", "refreshToken", "listUserPools", "logout",
        "otpLogin", "getCurrentUser", "createQRLogin", "getQRLoginStatus"}

EndpointOf(op) ==
  CASE op = "login" -> LoginUrl
    [] op = "register" -> RegisterUrl
    [] op = "refreshToken" -> RefreshUrl
    [] op = "listUserPools" -> UserPoolsUrl
    [] op = "logout" -> LogoutUrl
    [] op = "otpLogin" -> OtpLoginUrl
    [] op = "getCurrentUser" -> CurrentUserUrl
    [] op = "createQRLogin" -> QRCreateUrl

\* ------------------------------------------------------------ data shapes
\* no ceremony: qrData null, a response.data without the ceremony's fields
NoCeremony == [scene_id |-> Null, qr_url |-> Null, expires_at |-> Null]

\* response.data: the fields the client reads (token.access_token,
\* token.refresh_token and status of a status answer, the ceremony of a
\* creation answer in qr)
NoData ==
  [access_token |-> Null, refresh_token |-> Null, user |-> Null,
   status |-> Null, qr |-> NoCeremony]
NoError == [status |-> NoStatus, message |-> "", response |-> FALSE]

\* QRLoginCreateResponse: the ceremonies the server can create
Ceremonies ==
  { [scene_id |-> "S1", qr_url |-> "qr://S1", expires_at |-> "T1"],
    [scene_id |-> "S2", qr_url |-> "qr://S2", expires_at |-> "T2"] }
SceneIds == { q.scene_id : q \in Ceremonies }

\* the pair and the user a confirmed ceremony hands over
ConfirmedPair == [access_token |-> "A2", refresh_token |-> "R2"]
ConfirmedUser == "u8"

\* QRLoginStatusResponse: status is one of the five values, `user?` and
\* `token?` are optional; the client reads them only when status is confirmed
StatusPayloads ==
  { [NoData EXCEPT !.status = st] :
      st \in {"pending", "scanned", "expired", "cancelled"} }
  \cup
  { [NoData EXCEPT !.status = "confirmed",
                   !.access_token = IF withToken THEN ConfirmedPair.access_token ELSE Null,
                   !.refresh_token = IF withToken THEN ConfirmedPair.refresh_token ELSE Null,
                   !.user = IF withUser THEN ConfirmedUser ELSE Null] :
      withToken \in BOOLEAN, withUser \in BOOLEAN }

\* response.data of a 2xx answer of each endpoint (TokenResponse for login and
\* register, the pair for refresh, an opaque body otherwise)
Payloads(op) ==
  CASE op \in {"login", "register", "otpLogin"} ->
         { [NoData EXCEPT !.access_token = p.access_token,
                          !.refresh_token = p.refresh_token,
                          !.user = u] : p \in TokenPairs, u \in Users }
    [] op \in {"refreshToken", "refresh"} ->
         { [NoData EXCEPT !.access_token = p.access_token,
                          !.refresh_token = p.refresh_token] : p \in TokenPairs }
    [] op = "getCurrentUser" -> { [NoData EXCEPT !.user = u] : u \in Users }
    [] op = "createQRLogin" -> { [NoData EXCEPT !.qr = q] : q \in Ceremonies }
    [] op = "getQRLoginStatus" -> StatusPayloads
    [] OTHER -> { [NoData EXCEPT !.user = "body"] }

\* what one HTTP exchange can do: a response, no answer within the timeout,
\* or a network failure of fetch
FetchOutcomes(op) ==
  { [kind |-> "response", status |-> 200, message |-> NoMessage, data |-> d] :
      d \in Payloads(op) }
  \cup
  { [kind |-> "response", status |-> s, message |-> m, data |-> NoData] :
      s \in FailureStatuses, m \in BodyMessages }
  \cup
  { [kind |-> k, status |-> NoStatus, message |-> NoMessage, data |-> NoData] :
      k \in {"timeout", "network"} }

Ok(d) == [ok |-> TRUE, data |-> d, error |-> NoError]
Fail(e) == [ok |-> FALSE, data |-> NoData, error |-> e]
NoResult == [ok |-> FALSE, data |-> NoData, error |-> NoError]

\* ------------------------------------------------------------- Transport
\* `HTTP ${response.status}: ${response.statusText}`
StatusLine(status) ==
  IF status = 401 THEN "HTTP 401: Unauthorized"
  ELSE "HTTP 500: Internal Server Error"

\* handleResponse: the parsed body of a 2xx response, otherwise an Error with
\* status, response, and the body's message promoted to the Error's message
handleResponse(response) ==
  IF response.status \in 200..299
    THEN Ok(response.data)
    ELSE Fail([status |-> response.status,
               message |-> IF response.message # NoMessage
                             THEN response.message
                             ELSE StatusLine(response.status),
               response |-> TRUE])

\* fetchWithTimeout followed by handleResponse: Promise.race rejects with
\* Error('请求超时') when the timer wins, fetch rejects with a TypeError on a
\* network failure; neither Error has a status
Transport(outcome) ==
  CASE outcome.kind = "response" -> handleResponse(outcome)
    [] outcome.kind = "timeout" ->
         Fail([status |-> NoStatus, message |-> "request timed out", response |-> FALSE])
    [] outcome.kind = "network" ->
         Fail([status |-> NoStatus, message |-> "Failed to fetch", response |-> FALSE])

\* createHeaders: the Authorization header carries localStorage's access_token,
\* no header when there is none
createHeaders(storage) == storage.access_token

\* String.prototype.includes on the endpoint, segment-wise
includes(url, part) ==
  \E i \in 0..(Len(url) - Len(part)) :
    \A j \in 1..Len(part) : url[i + j] = part[j]

\* ------------------------------------------------------- Credential Store
\* variant of setItems: only the access token is written
setItemsAccessOnly(storage, data) ==
  [storage EXCEPT !.access_token = data.access_token]

\* localStorage.setItem of both keys
setItems(storage, data) ==
  [access_token |-> data.access_token, refresh_token |-> data.refresh_token]

\* variant of removeItems: only the access token is removed
removeAccessToken(storage) == [storage EXCEPT !.access_token = Null]

\* localStorage.removeItem of both keys
removeItems(storage) == [access_token |-> Null, refresh_token |-> Null]

\* ------------------------------------------------ pipeline (services/api.ts)
\* variant of IsUnauthorized: every failure response starts a recovery cycle
IsFailureResponse(error) == error.response

\* request: `if (error.status === 401)`
IsUnauthorized(error) == error.status = 401

\* variant of IsAuthEndpoint: only the sign-in endpoint is exempt
IsLoginEndpoint(url) == includes(url, <<"auth", "login">>)

\* handleAuthError: `url.includes('/auth/login') || url.includes('/auth/refresh')`
IsAuthEndpoint(url) ==
  includes(url, <<"auth", "login">>) \/ includes(url, <<"auth", "refresh">>)

\* new Error('认证失败')
AuthFailedError == [status |-> NoStatus, message |-> "auth failed", response |-> FALSE]
\* new Error('没有刷新令牌')
NoRefreshTokenError == [status |-> NoStatus, message |-> "no refresh token", response |-> FALSE]

\* one pipeline call: where it stands, what it sent and what came back
\*   auth          access token in the Authorization header of the last attempt
\*   sent          attempts of the original request
\*   refreshCalls  calls to the refresh endpoint
\*   refreshWith   refresh token in the body of the refresh call in flight
\*   firstResult, refreshResult, retryResult   what Transport made of each exchange
\*   redirected    this call assigned location.href
\*   result        what the promise of request settled with
\*   thrown        what the controller operation rejected with
\*   signedOut     logout cleared the session while this call was in flight
IdleCall ==
  [pc |-> "idle", op |-> "none", url |-> <<>>, auth |-> Null, sent |-> 0,
   refreshCalls |-> 0, refreshWith |-> Null, firstResult |-> NoResult,
   refreshResult |-> NoResult, retryResult |-> NoResult, redirected |-> FALSE,
   result |-> NoResult, thrown |-> NoError, signedOut |-> FALSE]

\* makeRequest: builds the headers from localStorage and sends the request
makeRequest(call, storage) ==
  [call EXCEPT !.auth = createHeaders(storage), !.sent = @ + 1]

\* the promise of request settles: pc "done" with the value or the Error
Settle(call, result) == [call EXCEPT !.pc = "done", !.result = result]

\* handleAuthError is not given the Error that request caught: once the
\* refresh call is under way only the status of the first failure is kept
StatusOnly(result) == Fail([result.error EXCEPT !.message = ""])

\* the catch block of handleAuthError: both keys removed, location.href set,
\* the caught Error rethrown
catchRefreshError(call, storage, error) ==
  [call |-> [Settle(call, Fail(error)) EXCEPT !.redirected = TRUE],
   storage |-> removeItems(storage),
   href |-> "/auth/login"]

\* variant of handleAuthError: the refresh call is made without looking at
\* the refresh token
handleAuthErrorUnchecked(call, storage, href) ==
  IF IsAuthEndpoint(call.url)
    THEN [call |-> Settle(call, Fail(AuthFailedError)), storage |-> storage, href |-> href]
    ELSE [call |-> [call EXCEPT !.pc = "refresh", !.refreshCalls = @ + 1,
                                !.refreshWith = storage.refresh_token,
                                !.firstResult = StatusOnly(@)],
          storage |-> storage, href |-> href]

\* variant of handleAuthError: the refresh call carries the refresh token of
\* the persisted session, not the one in localStorage
handleAuthErrorFirstToken(call, storage, href) ==
  IF IsAuthEndpoint(call.url)
    THEN [call |-> Settle(call, Fail(AuthFailedError)), storage |-> storage, href |-> href]
    ELSE IF storage.refresh_token = Null
      THEN catchRefreshError(call, storage, NoRefreshTokenError)
      ELSE [call |-> [call EXCEPT !.pc = "refresh", !.refreshCalls = @ + 1,
                                  !.refreshWith = "R1",
                                  !.firstResult = StatusOnly(@)],
            storage |-> storage, href |-> href]

\* handleAuthError up to its first await
handleAuthError(call, storage, href) ==
  IF IsAuthEndpoint(call.url)
    THEN [call |-> Settle(call, Fail(AuthFailedError)), storage |-> storage, href |-> href]
    ELSE IF storage.refresh_token = Null
      THEN catchRefreshError(call, storage, NoRefreshTokenError)
      ELSE [call |-> [call EXCEPT !.pc = "refresh", !.refreshCalls = @ + 1,
                                  !.refreshWith = storage.refresh_token,
                                  !.firstResult = StatusOnly(@)],
            storage |-> storage, href |-> href]

\* variant of afterFirstAttempt: a failure other than 401 is answered by
\* sending the request again, up to three attempts
afterFirstAttemptResending(call, storage, href, result) ==
  LET first == [call EXCEPT !.firstResult = result] IN
  IF result.ok
    THEN [call |-> Settle(first, result), storage |-> storage, href |-> href]
    ELSE IF IsUnauthorized(result.error)
      THEN handleAuthError(first, storage, href)
      ELSE IF first.sent < 3
        THEN [call |-> makeRequest(first, storage), storage |-> storage, href |-> href]
        ELSE [call |-> Settle(first, result), storage |-> storage, href |-> href]

\* request after the first attempt settled
afterFirstAttempt(call, storage, href, result) ==
  LET first == [call EXCEPT !.firstResult = result] IN
  IF result.ok
    THEN [call |-> Settle(first, result), storage |-> storage, href |-> href]
    ELSE IF IsUnauthorized(result.error)
      THEN handleAuthError(first, storage, href)
      ELSE [call |-> Settle(first, result), storage |-> storage, href |-> href]

\* variant of afterRefresh: the headers of the re-sent request are built
\* before the new pair is written
afterRefreshStaleHeaders(call, storage, href, result) ==
  LET refreshed == [call EXCEPT !.refreshResult = result, !.refreshWith = Null] IN
  IF result.ok
    THEN [call |-> [makeRequest(refreshed, storage) EXCEPT !.pc = "retry"],
          storage |-> setItems(storage, result.data), href |-> href]
    ELSE catchRefreshError(refreshed, storage, result.error)

\* variant of afterRefresh: a failed refresh clears the store only when the
\* store still holds the refresh token this call sent
afterRefreshGuarded(call, storage, href, result) ==
  LET refreshed == [call EXCEPT !.refreshResult = result, !.refreshWith = Null] IN
  IF result.ok
    THEN LET stored == setItems(storage, result.data) IN
         [call |-> [makeRequest(refreshed, stored) EXCEPT !.pc = "retry"],
          storage |-> stored, href |-> href]
    ELSE LET caught == catchRefreshError(refreshed, storage, result.error) IN
         IF storage.refresh_token = call.refreshWith
           THEN caught
           ELSE [caught EXCEPT !.storage = storage]

\* handleAuthError after the refresh call settled: on success both keys are
\* written and the original request is sent again
afterRefresh(call, storage, href, result) ==
  LET refreshed == [call EXCEPT !.refreshResult = result, !.refreshWith = Null] IN
  IF result.ok
    THEN LET stored == setItems(storage, result.data) IN
         [call |-> [makeRequest(refreshed, stored) EXCEPT !.pc = "retry"],
          storage |-> stored, href |-> href]
    ELSE catchRefreshError(refreshed, storage, result.error)

\* variant of afterRetry: a 401 of the re-sent request starts another
\* recovery cycle
afterRetryRecovering(call, storage, href, result) ==
  LET retried == [call EXCEPT !.retryResult = result] IN
  IF result.ok
    THEN [call |-> Settle(retried, result), storage |-> storage, href |-> href]
    ELSE IF IsUnauthorized(result.error)
      THEN handleAuthError(retried, storage, href)
      ELSE catchRefreshError(retried, storage, result.error)

\* handleAuthError after the re-sent request settled: `return await
\* originalRequest()` is inside the try block, so its rejection is caught too
afterRetry(call, storage, href, result) ==
  LET retried == [call EXCEPT !.retryResult = result] IN
  IF result.ok
    THEN [call |-> Settle(retried, result), storage |-> storage, href |-> href]
    ELSE catchRefreshError(retried, storage, result.error)

\* ------------------------------------------ session controller (stores/auth.ts)
InitialState ==
  [user |-> Null, accessToken |-> Null, refreshToken |-> Null,
   isAuthenticated |-> FALSE, isLoading |-> FALSE]

\* variant of loginFulfilled: the access token is not put into the state
loginFulfilledNoToken(st, data) ==
  [user |-> data.user, accessToken |-> st.accessToken,
   refreshToken |-> data.refresh_token, isAuthenticated |-> TRUE,
   isLoading |-> FALSE]

\* login after `await authService.login` resolved
loginFulfilled(st, data) ==
  [user |-> data.user, accessToken |-> data.access_token,
   refreshToken |-> data.refresh_token, isAuthenticated |-> TRUE,
   isLoading |-> FALSE]

\* variant of loginRejected: the session is reset as clearAuth does
loginRejectedClearing(st, error) ==
  [state |-> InitialState, thrown |-> error]

\* login's catch block: isLoading reset, the Error rethrown
loginRejected(st, error) ==
  [state |-> [st EXCEPT !.isLoading = FALSE], thrown |-> error]

\* variant of registerFulfilled: isLoading is not reset
registerFulfilledBusy(st, data) ==
  [user |-> data.user, accessToken |-> data.access_token,
   refreshToken |-> data.refresh_token, isAuthenticated |-> TRUE,
   isLoading |-> st.isLoading]

\* register after `await authService.register` resolved
registerFulfilled(st, data) ==
  [user |-> data.user, accessToken |-> data.access_token,
   refreshToken |-> data.refresh_token, isAuthenticated |-> TRUE,
   isLoading |-> FALSE]

\* variant of registerRejected: the Error is rethrown, isLoading is kept
registerRejectedBusy(st, error) ==
  [state |-> st, thrown |-> error]

\* register's catch block: isLoading reset, the Error rethrown
registerRejected(st, error) ==
  [state |-> [st EXCEPT !.isLoading = FALSE], thrown |-> error]

\* variant of logoutFinally: the state is reset, the store keys are kept
logoutFinallyKeepingStore(storage, st) ==
  [storage |-> storage, state |-> InitialState]

\* logout's finally block: the store keys removed, the state reset
logoutFinally(storage, st) ==
  [storage |-> removeItems(storage), state |-> InitialState]

\* variant of setTokens: isLoading is reset as login does
setTokensNotLoading(storage, st, tokens) ==
  [storage |-> setItems(storage, tokens),
   state |-> [user |-> tokens.user, accessToken |-> tokens.access_token,
              refreshToken |-> tokens.refresh_token, isAuthenticated |-> TRUE,
              isLoading |-> FALSE]]

\* setTokens: both keys written, the session set; isLoading is not assigned
setTokens(storage, st, tokens) ==
  [storage |-> setItems(storage, tokens),
   state |-> [st EXCEPT !.user = tokens.user,
                        !.accessToken = tokens.access_token,
                        !.refreshToken = tokens.refresh_token,
                        !.isAuthenticated = TRUE]]

\* clearAuth: the store keys removed, the state reset
clearAuth(storage, st) ==
  [storage |-> removeItems(storage), state |-> InitialState]

\* variant of refreshUserInfoFulfilled: the answer is merged into the user
\* the state holds, whose fields win
refreshUserInfoFulfilledMerging(storage, st, data) ==
  [storage |-> storage,
   state |-> [st EXCEPT !.user = IF st.user # Null THEN st.user ELSE data.user],
   thrown |-> NoError]

\* refreshUserInfo after `await authService.getCurrentUser` resolved
refreshUserInfoFulfilled(storage, st, data) ==
  [storage |-> storage, state |-> [st EXCEPT !.user = data.user],
   thrown |-> NoError]

\* variant of refreshUserInfoRejected: the failure is only logged
refreshUserInfoRejectedLogging(storage, st, error) ==
  [storage |-> storage, state |-> st, thrown |-> NoError]

\* refreshUserInfo's catch block: clearAuth, nothing rethrown
refreshUserInfoRejected(storage, st, error) ==
  clearAuth(storage, st) @@ [thrown |-> NoError]

\* the status answers on which the polling callback takes its first branch
IsConfirmedWithToken(data) ==
  data.status = "confirmed" /\ data.access_token # Null

\* onVerifyOTP's call of setTokens with the fields of the answer
otpSetTokens(storage, st, data) ==
  setTokens(storage, st,
            [access_token |-> data.access_token,
             refresh_token |-> data.refresh_token, user |-> data.user])

\* the polling callback's call of setTokens: the pair of `token`, `user!`
pollSetTokens(storage, st, data) ==
  setTokens(storage, st,
            [access_token |-> data.access_token,
             refresh_token |-> data.refresh_token, user |-> data.user])

\* setLoading: isLoading is assigned
setLoading(st, loading) == [st EXCEPT !.isLoading = loading]

\* variant of partialize: the whole state is persisted
partializeAll(st) == st

\* persist's partialize: the fields written under 'auth-storage' at every set
partialize(st) ==
  [user |-> st.user, accessToken |-> st.accessToken,
   refreshToken |-> st.refreshToken, isAuthenticated |-> st.isAuthenticated]

\* persist's rehydration at page load: the persisted fields over the initial
\* state of the store
hydrate(persisted) == persisted @@ InitialState

\* the continuation of the caller that awaits the pipeline call
Continue(op, result, storage, st) ==
  CASE op = "login" ->
         IF result.ok
           THEN [storage |-> setItems(storage, result.data),
                 state |-> loginFulfilled(st, result.data), thrown |-> NoError]
           ELSE [storage |-> storage] @@ loginRejected(st, result.error)
    [] op = "register" ->
         IF result.ok
           THEN [storage |-> setItems(storage, result.data),
                 state |-> registerFulfilled(st, result.data), thrown |-> NoError]
           ELSE [storage |-> storage] @@ registerRejected(st, result.error)
    [] op = "getCurrentUser" ->
         IF result.ok
           THEN refreshUserInfoFulfilled(storage, st, result.data)
           ELSE refreshUserInfoRejected(storage, st, result.error)
    [] op = "otpLogin" ->
         \* onVerifyOTP catches every failure
         IF result.ok
           THEN otpSetTokens(storage, st, result.data) @@ [thrown |-> NoError]
           ELSE [storage |-> storage, state |-> st, thrown |-> NoError]
    [] op = "getQRLoginStatus" ->
         \* the interval callback catches every failure
         IF result.ok /\ IsConfirmedWithToken(result.data)
           THEN pollSetTokens(storage, st, result.data) @@ [thrown |-> NoError]
           ELSE [storage |-> storage, state |-> st, thrown |-> NoError]
    [] op = "createQRLogin" ->
         \* createQR catches every failure
         [storage |-> storage, state |-> st, thrown |-> NoError]
    [] op = "logout" ->
         \* nobody awaits the promise of authService.logout()
         [storage |-> storage, state |-> st, thrown |-> NoError]
    [] OTHER -> [storage |-> storage, state |-> st, thrown |-> result.error]

\* ------------------------------------------------------------ QR login page
\* the component before its effect ran: useState and useRef initial values
InitialPage ==
  [component |-> "initial", qrData |-> NoCeremony, status |-> "loading",
   isCreating |-> FALSE, intervalRef |-> Null, timers |-> {}]

\* a state setter of a component that is no longer mounted does nothing
setQrData(page, data) ==
  IF page.component = "mounted" THEN [page EXCEPT !.qrData = data] ELSE page
setStatus(page, qrStatus) ==
  IF page.component = "mounted" THEN [page EXCEPT !.status = qrStatus] ELSE page
setIsCreating(page, flag) ==
  IF page.component = "mounted" THEN [page EXCEPT !.isCreating = flag] ELSE page

\* variant of stopPolling: the status is set to expired as well
stopPollingExpiring(page) ==
  IF page.intervalRef # Null
    THEN [page EXCEPT !.timers = @ \ {page.intervalRef}, !.intervalRef = Null,
                      !.status = "expired"]
    ELSE [page EXCEPT !.status = "expired"]

\* stopPolling: the interval named by intervalRef is cleared
stopPolling(page) ==
  IF page.intervalRef # Null
    THEN [page EXCEPT !.timers = @ \ {page.intervalRef}, !.intervalRef = Null]
    ELSE page

\* startPolling: an interval of intervalRef is cleared, a new one is set; the
\* interval is named by the sceneId its callback closes over
startPolling(page, sceneId) ==
  LET cleared == IF page.intervalRef # Null
                   THEN [page EXCEPT !.timers = @ \ {page.intervalRef}]
                   ELSE page
  IN [cleared EXCEPT !.timers = @ \cup {sceneId}, !.intervalRef = sceneId]

\* createQR up to its await
createQRStart(page) == setIsCreating(page, TRUE)

\* variant of createQRFulfilled: the ceremony is shown, no interval is set
createQRFulfilledIdle(page, data) ==
  setIsCreating(setStatus(setQrData(page, data.qr), "pending"), FALSE)

\* createQR after `await authService.createQRLogin` resolved, with its finally
createQRFulfilled(page, data) ==
  setIsCreating(
    startPolling(setStatus(setQrData(page, data.qr), "pending"),
                 data.qr.scene_id),
    FALSE)

\* createQR's catch block, with its finally
createQRRejected(page) ==
  setIsCreating(setStatus(page, "expired"), FALSE)

\* variant of pollFulfilled: only expired and cancelled stop the interval
pollFulfilledPolling(page, data) ==
  LET shown == setStatus(page, data.status)
  IN IF data.status \in {"expired", "cancelled"} THEN stopPolling(shown)
     ELSE shown

\* variant of pollFulfilled: the interval is cleared after every answer
pollFulfilledOnce(page, data) ==
  stopPolling(setStatus(page, data.status))

\* the interval callback after `await authService.getQRLoginStatus` resolved
pollFulfilled(page, data) ==
  LET shown == setStatus(page, data.status)
  IN IF IsConfirmedWithToken(data) THEN stopPolling(shown)
     ELSE IF data.status \in {"expired", "cancelled"} THEN stopPolling(shown)
     ELSE shown

\* variant of pollRejected: the failure is only logged
pollRejectedLogging(page) == page

\* the interval callback's catch block
pollRejected(page) == setStatus(stopPolling(page), "expired")

\* the effect's cleanup
cleanup(page) == [stopPolling(page) EXCEPT !.component = "unmounted"]

\* refreshQR up to the await of createQR
refreshQRStart(page) ==
  createQRStart(setStatus(setQrData(stopPolling(page), NoCeremony), "loading"))

\* the page's continuation of a settled pipeline call
PageContinue(op, result, page) ==
  CASE op = "createQRLogin" ->
         IF result.ok THEN createQRFulfilled(page, result.data)
                      ELSE createQRRejected(page)
    [] op = "getQRLoginStatus" ->
         IF result.ok THEN pollFulfilled(page, result.data)
                      ELSE pollRejected(page)
    [] OTHER -> page

\* the continuations that call setTokens and then navigate('/dashboard'):
\* onVerifyOTP and the interval callback
Adopts(op, result) ==
  \/ op = "otpLogin" /\ result.ok
  \/ op = "getQRLoginStatus" /\ result.ok /\ IsConfirmedWithToken(result.data)

\* ------------------------------------------------------------------- state
VARIABLES
  localStorage,   \* the keys access_token and refresh_token
  state,          \* the zustand AuthState
  href,           \* window.location.href
  calls,          \* the pipeline calls, by slot
  issued,         \* operations issued so far
  page,           \* QRLoginPage: its state, intervalRef and the live intervals
  adopted         \* the session in state was last set by setTokens

vars == <<localStorage, state, href, calls, issued, page, adopted>>

Slots == 1..MaxCalls

Free(c) == calls[c].pc \in {"idle", "done", "aborted"}
\* a settled promise has been handed to its caller, the promise of an aborted
\* call went with the page that was unloaded: the record is dropped with the
\* next step of the program
Forget(call) == IF call.pc \in {"done", "aborted"} THEN IdleCall ELSE call
\* a new call takes the lowest free slot
Lowest(c) == Free(c) /\ \A d \in Slots : d < c => ~Free(d)

\* a session persisted by an earlier page load
PersistedPair == [access_token |-> "A1", refresh_token |-> "R1"]

Init ==
  /\ \/ /\ localStorage = [access_token |-> Null, refresh_token |-> Null]
        /\ state = InitialState
     \/ /\ localStorage = PersistedPair
        /\ state = [user |-> "u7", accessToken |-> "A1", refreshToken |-> "R1",
                    isAuthenticated |-> TRUE, isLoading |-> FALSE]
  /\ href = "/"
  /\ calls = [c \in Slots |-> IdleCall]
  /\ issued = 0
  /\ page = InitialPage
  /\ adopted = FALSE

\* request(endpoint): the first attempt is sent synchronously
send(c, op, url) ==
  /\ Lowest(c)
  /\ calls' = [d \in Slots |->
       IF d = c
         THEN [makeRequest(IdleCall, localStorage) EXCEPT
                 !.pc = "first", !.op = op, !.url = url]
         ELSE Forget(calls[d])]

\* an operation of the session controller or of a service, issued by the user
request(c, op) ==
  /\ issued < MaxIssued
  /\ issued' = issued + 1
  /\ send(c, op, EndpointOf(op))

\* useAuthStore.login up to its await
login(c) ==
  /\ request(c, "login")
  /\ state' = [state EXCEPT !.isLoading = TRUE]
  /\ UNCHANGED <<localStorage, href, page, adopted>>

\* useAuthStore.register up to its await
register(c) ==
  /\ request(c, "register")
  /\ state' = [state EXCEPT !.isLoading = TRUE]
  /\ UNCHANGED <<localStorage, href, page, adopted>>

\* authService.refreshToken called directly
refreshToken(c) ==
  /\ request(c, "refreshToken")
  /\ UNCHANGED <<localStorage, state, href, page, adopted>>

\* userService.listUserPools: an ordinary authenticated request
listUserPools(c) ==
  /\ request(c, "listUserPools")
  /\ UNCHANGED <<localStorage, state, href, page, adopted>>

\* a pipeline step and, when it settles the call, the caller's continuation
Apply(c, step) ==
  LET done == step.call.pc = "done"
      cont == Continue(step.call.op, step.call.result, step.storage, state)
  IN /\ calls' = [d \in Slots |->
          IF d # c THEN Forget(calls[d])
          ELSE IF done THEN [step.call EXCEPT !.thrown = cont.thrown]
          ELSE step.call]
     /\ href' = IF done /\ Adopts(step.call.op, step.call.result)
                  THEN "/dashboard" ELSE step.href
     /\ localStorage' = IF done THEN cont.storage ELSE step.storage
     /\ state' = IF done THEN cont.state ELSE state
     /\ page' = IF done
                  THEN PageContinue(step.call.op, step.call.result, page)
                  ELSE page
     /\ adopted' = IF done /\ step.call.result.ok
                       /\ step.call.op \in {"login", "register"} THEN FALSE
                    ELSE IF done /\ Adopts(step.call.op, step.call.result)
                      THEN TRUE
                    ELSE adopted
     /\ UNCHANGED issued

\* the first attempt settles
FirstResponse(c) ==
  /\ calls[c].pc = "first"
  /\ \E o \in FetchOutcomes(calls[c].op) :
       Apply(c, afterFirstAttempt(calls[c], localStorage, href, Transport(o)))

\* the refresh call settles
RefreshResponse(c) ==
  /\ calls[c].pc = "refresh"
  /\ \E o \in FetchOutcomes("refresh") :
       Apply(c, afterRefresh(calls[c], localStorage, href, Transport(o)))

\* the re-sent request settles
RetryResponse(c) ==
  /\ calls[c].pc = "retry"
  /\ \E o \in FetchOutcomes(calls[c].op) :
       Apply(c, afterRetry(calls[c], localStorage, href, Transport(o)))

Next ==
  \E c \in Slots :
    \/ login(c)
    \/ register(c)
    \/ refreshToken(c)
    \/ listUserPools(c)
    \/ FirstResponse(c)
    \/ RefreshResponse(c)
    \/ RetryResponse(c)

Spec == Init /\ [][Next]_vars

\* some pending exchange settles
Responses ==
  \E c \in Slots : FirstResponse(c) \/ RefreshResponse(c) \/ RetryResponse(c)

\* useAuthStore.setLoading
setLoadingCall(loading) ==
  /\ state' = setLoading(state, loading)
  /\ calls' = [d \in Slots |-> Forget(calls[d])]
  /\ UNCHANGED <<localStorage, href, issued, page, adopted>>

\* the page is reloaded: the pending promises go with the old page, the store
\* is created anew and rehydrated, localStorage and the location stay
reload ==
  /\ state' = hydrate(partialize(state))
  /\ calls' = [d \in Slots |->
       IF calls[d].pc \in {"first", "refresh", "retry"}
         THEN [calls[d] EXCEPT !.pc = "aborted"]
         ELSE IdleCall]
  /\ UNCHANGED <<localStorage, href, issued, page, adopted>>

\* the store with its sign-in operations, setLoading and page reloads
StoreNext ==
  \/ reload
  \/ \E loading \in BOOLEAN : setLoadingCall(loading)
  \/ \E c \in Slots :
       \/ issued < MaxSignIns /\ login(c)
       \/ issued < MaxSignIns /\ register(c)
       \/ FirstResponse(c)
       \/ RefreshResponse(c)
       \/ RetryResponse(c)

StoreSpec == Init /\ [][StoreNext]_vars

\* the sign-in forms: login and register, up to MaxSignIns submissions
SignInNext ==
  \E c \in Slots :
    \/ issued < MaxSignIns /\ login(c)
    \/ issued < MaxSignIns /\ register(c)
    \/ FirstResponse(c)
    \/ RefreshResponse(c)
    \/ RetryResponse(c)

\* fetchWithTimeout aborts an exchange after the timeout, so every exchange
\* settles: with a response, a network failure or the timeout
SignInSpec == Init /\ [][SignInNext]_vars /\ WF_vars(Responses)

\* useAuthStore.logout: authService.logout() is not awaited, its request is
\* sent with the headers of the session that the finally block then clears in
\* the same turn
logout(c) ==
  /\ issued < MaxIssued
  /\ issued' = issued + 1
  /\ Lowest(c)
  /\ calls' = [d \in Slots |->
       IF d = c
         THEN [makeRequest(IdleCall, localStorage) EXCEPT
                 !.pc = "first", !.op = "logout", !.url = LogoutUrl,
                 !.signedOut = TRUE]
         ELSE [Forget(calls[d]) EXCEPT
                 !.signedOut = calls[d].pc \in {"first", "refresh", "retry"}]]
  /\ LET cleared == logoutFinally(localStorage, state)
     IN /\ localStorage' = cleared.storage
        /\ state' = cleared.state
  /\ UNCHANGED <<href, page, adopted>>

\* onVerifyOTP up to its await
onVerifyOTP(c) ==
  /\ request(c, "otpLogin")
  /\ UNCHANGED <<localStorage, state, href, page, adopted>>

\* useAuthStore.refreshUserInfo up to its await
refreshUserInfo(c) ==
  /\ request(c, "getCurrentUser")
  /\ UNCHANGED <<localStorage, state, href, page, adopted>>

SessionNext ==
  \E c \in Slots :
       \/ login(c)
       \/ onVerifyOTP(c)
       \/ logout(c)
       \/ refreshUserInfo(c)
       \/ FirstResponse(c)
       \/ RefreshResponse(c)
       \/ RetryResponse(c)

SessionSpec == Init /\ [][SessionNext]_vars

\* a call of authService made by the page
pageCall(c, op, url) ==
  /\ issued < MaxPageCalls
  /\ issued' = issued + 1
  /\ send(c, op, url)

\* the effect of the first render: createQR up to its await
mount(c) ==
  /\ page.component = "initial"
  /\ pageCall(c, "createQRLogin", QRCreateUrl)
  /\ page' = createQRStart([page EXCEPT !.component = "mounted"])
  /\ UNCHANGED <<localStorage, state, href, adopted>>

\* the page is left: the effect's cleanup runs
unmount ==
  /\ page.component = "mounted"
  /\ page' = cleanup(page)
  /\ calls' = [d \in Slots |-> Forget(calls[d])]
  /\ UNCHANGED <<localStorage, state, href, issued, adopted>>

\* a refresh button is rendered when the status is expired or cancelled, or
\* pending or scanned, and is disabled while isCreating
RefreshButtonEnabled ==
  /\ page.component = "mounted"
  /\ page.status \in {"pending", "scanned", "expired", "cancelled"}
  /\ ~page.isCreating

\* a click on a refresh button: refreshQR up to the await of createQR
refreshQR(c) ==
  /\ RefreshButtonEnabled
  /\ pageCall(c, "createQRLogin", QRCreateUrl)
  /\ page' = refreshQRStart(page)
  /\ UNCHANGED <<localStorage, state, href, adopted>>

\* a live interval fires: its callback up to its await
tick(c) ==
  \E sceneId \in page.timers :
    /\ pageCall(c, "getQRLoginStatus", QRStatusUrl(sceneId))
    /\ UNCHANGED <<localStorage, state, href, page, adopted>>

PageNext ==
  \/ unmount
  \/ \E c \in Slots :
       \/ mount(c)
       \/ refreshQR(c)
       \/ tick(c)
       \/ FirstResponse(c)
       \/ RefreshResponse(c)
       \/ RetryResponse(c)

\* the page is opened from the login page by a visitor who is not signed in
PageInit == Init /\ state = InitialState

PageSpec == PageInit /\ [][PageNext]_vars

TypeOK ==
  /\ localStorage \in [access_token : {Null, "A1", "A2"}, refresh_token : {Null, "R1", "R2"}]
  /\ state.isLoading \in BOOLEAN
  /\ href \in {"/", "/auth/login", "/dashboard"}
  /\ issued \in 0..MaxPageCalls
  /\ page.component \in {"initial", "mounted", "unmounted"}
  /\ page.intervalRef \in SceneIds \cup {Null}
  /\ page.timers \subseteq SceneIds
  /\ adopted \in BOOLEAN

\* ----------------------------------------------------------------- claims
EmptyStorage == [access_token |-> Null, refresh_token |-> Null]

\* call c takes a step
Steps(c) == calls'[c] # calls[c]
\* the promise of call c settles in this step
Settles(c) == calls[c].pc # "done" /\ calls'[c].pc = "done"
\* the exchange failed with HTTP 401
Is401(result) == ~result.ok /\ result.error.status = 401

\* C1 - single-retry law: a request to a non-auth endpoint whose first attempt
\* returned 401, whose refresh succeeded and whose re-sent attempt returned 401
\* again has settled with that second 401 failure, and exactly one refresh
\* call was made for it.
C1_SingleRetryLaw ==
  \A c \in Slots :
    ( /\ ~IsAuthEndpoint(calls[c].url)
      /\ Is401(calls[c].firstResult)
      /\ calls[c].refreshResult.ok
      /\ Is401(calls[c].retryResult) )
    => /\ calls[c].pc = "done"
       /\ calls[c].result = calls[c].retryResult
       /\ calls[c].result.error.status = 401
       /\ calls[c].refreshCalls = 1
       /\ calls[c].sent = 2

C1_Witness ==
  \E c \in Slots :
    /\ calls[c].op = "listUserPools"
    /\ calls[c].pc = "done"
    /\ Is401(calls[c].firstResult)
    /\ calls[c].refreshResult.ok
    /\ Is401(calls[c].retryResult)

\* C2 - the pipeline writes the Credential Store only when it persists the
\* pair of a successful refresh or when a refresh fails or the refresh token
\* is absent: the step in which the re-sent request fails leaves the store
\* as it is and does not assign location.href.
C2_RetryFailureKeepsStore ==
  [][ \A c \in Slots :
        ( /\ calls[c].pc = "retry"
          /\ Settles(c)
          /\ ~calls'[c].result.ok )
        => /\ localStorage' = localStorage
           /\ href' = href
           /\ ~calls'[c].redirected ]_vars

\* C3 - after a successful refresh the new pair is in the Credential Store
\* when the original request is sent again; the original request is sent a
\* second time and no more, no second refresh call is made, the re-sent
\* request carries the new access token, and the call settles with the
\* result of the re-sent request.
C3_RefreshThenRetryOnce ==
  [][ \A c \in Slots :
        /\ ( calls[c].pc = "refresh" /\ Steps(c) /\ calls'[c].refreshResult.ok )
           => /\ calls'[c].pc = "retry"
              /\ localStorage'.access_token = calls'[c].refreshResult.data.access_token
              /\ localStorage'.refresh_token = calls'[c].refreshResult.data.refresh_token
              /\ calls'[c].auth = calls'[c].refreshResult.data.access_token
              /\ calls'[c].sent = 2
              /\ calls'[c].refreshCalls = 1
              /\ calls'[c].url = calls[c].url
        /\ ( calls[c].pc = "retry" /\ Steps(c) )
           => /\ calls'[c].pc = "done"
              /\ calls'[c].result = calls'[c].retryResult
              /\ calls'[c].sent = 2
              /\ calls'[c].refreshCalls = 1 ]_vars

C3_Witness ==
  \E c \in Slots :
    /\ calls[c].pc = "done"
    /\ calls[c].refreshResult.ok
    /\ calls[c].retryResult.ok
    /\ calls[c].result = calls[c].retryResult
    /\ calls[c].auth = calls[c].refreshResult.data.access_token
    /\ calls[c].auth # PersistedPair.access_token

\* C4 - a 401 of a non-auth endpoint while localStorage has no refresh token:
\* the call fails in the same step with the no-refresh-token Error, no refresh
\* call is made, the request is not sent again, and the store is empty.
C4_NoRefreshToken ==
  [][ \A c \in Slots :
        ( /\ calls[c].pc = "first"
          /\ Steps(c)
          /\ Is401(calls'[c].firstResult)
          /\ ~IsAuthEndpoint(calls[c].url)
          /\ localStorage.refresh_token = Null )
        => /\ calls'[c].pc = "done"
           /\ calls'[c].result = Fail(NoRefreshTokenError)
           /\ calls'[c].refreshCalls = 0
           /\ calls'[c].sent = 1
           /\ localStorage' = EmptyStorage ]_vars

C4_Witness ==
  \E c \in Slots :
    /\ calls[c].pc = "done"
    /\ calls[c].op = "listUserPools"
    /\ Is401(calls[c].firstResult)
    /\ calls[c].result = Fail(NoRefreshTokenError)
    /\ calls[c].refreshCalls = 0
    /\ localStorage = EmptyStorage

\* C5 - a failed refresh call (failure response, timeout or network failure)
\* settles the call with the refresh call's failure; the store is empty,
\* location.href is the sign-in page, and the request is not sent again.
C5_RefreshFailure ==
  [][ \A c \in Slots :
        ( /\ calls[c].pc = "refresh"
          /\ Steps(c)
          /\ ~calls'[c].refreshResult.ok )
        => /\ calls'[c].pc = "done"
           /\ calls'[c].result = calls'[c].refreshResult
           /\ calls'[c].sent = 1
           /\ localStorage' = EmptyStorage
           /\ calls'[c].redirected
           /\ href' = "/auth/login" ]_vars

C5_Witness ==
  \E c \in Slots :
    /\ calls[c].pc = "done"
    /\ Is401(calls[c].firstResult)
    /\ ~calls[c].refreshResult.ok
    /\ calls[c].refreshResult.error.status = NoStatus
    /\ calls[c].result = calls[c].refreshResult
    /\ calls[c].sent = 1
    /\ localStorage = EmptyStorage
    /\ href = "/auth/login"

\* C6 - a first attempt that fails with anything but a 401 (failure response
\* with another status, timeout, network failure) settles the call with that
\* failure; the request was sent once, no refresh call was made, location.href
\* and the store are untouched.
C6_OtherFailuresPassThrough ==
  [][ \A c \in Slots :
        ( /\ calls[c].pc = "first"
          /\ Steps(c)
          /\ ~calls'[c].firstResult.ok
          /\ calls'[c].firstResult.error.status # 401 )
        => /\ calls'[c].pc = "done"
           /\ calls'[c].result = calls'[c].firstResult
           /\ calls'[c].sent = 1
           /\ calls'[c].refreshCalls = 0
           /\ ~calls'[c].redirected
           /\ href' = href
           /\ localStorage' = localStorage ]_vars

C6_Witness ==
  /\ \E c \in Slots :
       /\ calls[c].pc = "done"
       /\ calls[c].op = "listUserPools"
       /\ calls[c].firstResult.error.status = NoStatus
       /\ calls[c].firstResult.error.message = "request timed out"
       /\ calls[c].result = calls[c].firstResult
       /\ calls[c].sent = 1
  /\ localStorage = PersistedPair
  /\ href = "/"

\* C7 - a 401 of the sign-in or of the refresh endpoint starts no recovery
\* cycle: no refresh call, the request is not sent again, the store and
\* location.href are untouched.
C7_AuthEndpointsNotRecovered ==
  [][ \A c \in Slots :
        ( /\ calls[c].pc = "first"
          /\ Steps(c)
          /\ Is401(calls'[c].firstResult)
          /\ calls[c].url \in {LoginUrl, RefreshUrl} )
        => /\ calls'[c].pc = "done"
           /\ calls'[c].refreshCalls = 0
           /\ calls'[c].sent = 1
           /\ localStorage' = localStorage
           /\ href' = href
           /\ ~calls'[c].redirected ]_vars

C7_Witness ==
  /\ \E c \in Slots :
       /\ calls[c].pc = "done" /\ calls[c].url = RefreshUrl
       /\ Is401(calls[c].firstResult)
       /\ calls[c].refreshCalls = 0
  /\ localStorage = PersistedPair
  /\ href = "/"

\* C8 - only a 401 of a non-auth endpoint is intercepted; every other failure
\* of the first attempt, a 401 of the sign-in or refresh endpoint included,
\* reaches the caller as Transport produced it, with the same status and the
\* same message.
C8_OnlyNonAuth401Intercepted ==
  \A c \in Slots :
    ( /\ calls[c].pc = "done"
      /\ ~calls[c].firstResult.ok
      /\ calls[c].firstResult # NoResult
      /\ ( ~Is401(calls[c].firstResult) \/ calls[c].url \in {LoginUrl, RefreshUrl} ) )
    => /\ calls[c].result.error.status = calls[c].firstResult.error.status
       /\ calls[c].result.error.message = calls[c].firstResult.error.message
       /\ calls[c].thrown = calls[c].firstResult.error

\* the session a successful login or register leaves behind
SessionOf(data) ==
  [user |-> data.user, accessToken |-> data.access_token,
   refreshToken |-> data.refresh_token, isAuthenticated |-> TRUE,
   isLoading |-> FALSE]

\* C9 - when the endpoint call of login or register succeeds with
\* {access_token, refresh_token, user}, the state is authenticated with that
\* user and that pair, isLoading is false, and localStorage holds the pair.
C9_SignInSuccess ==
  [][ \A c \in Slots :
        ( /\ calls'[c].op \in {"login", "register"}
          /\ Settles(c)
          /\ calls'[c].result.ok )
        => /\ state' = SessionOf(calls'[c].result.data)
           /\ state'.user \in Users
           /\ localStorage'.access_token = calls'[c].result.data.access_token
           /\ localStorage'.refresh_token = calls'[c].result.data.refresh_token
           /\ localStorage' # EmptyStorage
           /\ calls'[c].thrown = NoError ]_vars

C9_Witness ==
  /\ \E c \in Slots :
       /\ calls[c].pc = "done" /\ calls[c].op = "login" /\ calls[c].result.ok
       /\ state = SessionOf(calls[c].result.data)
       /\ state.user = "u8" /\ state.accessToken = "A2"
       /\ localStorage = [access_token |-> "A2", refresh_token |-> "R2"]

\* C10 - when the endpoint call of login or register fails, isLoading is false
\* afterwards and the failure is rethrown; no step of the call other than its
\* successful completion changes user, accessToken, refreshToken or
\* isAuthenticated.
C10_SignInFailure ==
  [][ \A c \in Slots :
        /\ ( /\ calls'[c].op \in {"login", "register"}
             /\ Settles(c)
             /\ ~calls'[c].result.ok )
           => /\ state'.isLoading = FALSE
              /\ calls'[c].thrown = calls'[c].result.error
              /\ calls'[c].thrown # NoError
        /\ ( /\ calls'[c].op \in {"login", "register"}
             /\ Steps(c)
             /\ ~(calls'[c].pc = "done" /\ calls'[c].result.ok) )
           => /\ state'.user = state.user
              /\ state'.accessToken = state.accessToken
              /\ state'.refreshToken = state.refreshToken
              /\ state'.isAuthenticated = state.isAuthenticated ]_vars

C10_Witness ==
  /\ \E c \in Slots :
       /\ calls[c].pc = "done" /\ calls[c].op = "register" /\ ~calls[c].result.ok
       /\ calls[c].thrown = calls[c].result.error
       /\ calls[c].thrown.status = 500
  /\ state.isAuthenticated
  /\ state.user = "u7"
  /\ ~state.isLoading

\* call c is issued in this step as operation op
Issues(c, op) ==
  /\ calls[c].pc \in {"idle", "done", "aborted"}
  /\ calls'[c].pc = "first"
  /\ calls'[c].op = op
\* Session State is anonymous
Anonymous(st) ==
  /\ st.user = Null
  /\ st.accessToken = Null
  /\ st.refreshToken = Null
  /\ ~st.isAuthenticated
  /\ ~st.isLoading

\* C11 - for every logout call, when logout returns the Credential Store is
\* empty and Session State is anonymous (user, accessToken and refreshToken
\* absent, isAuthenticated and isLoading false); whatever the outcome of the
\* logout network call, it is not propagated and leaves Session State as it is.
C11_SignOutClears ==
  [][ \A c \in Slots :
        /\ Issues(c, "logout")
           => /\ localStorage' = EmptyStorage
              /\ Anonymous(state')
        /\ ( calls[c].op = "logout" /\ Settles(c) )
           => /\ calls'[c].thrown = NoError
              /\ state' = state ]_vars

C11_Witness ==
  \E c \in Slots :
    /\ calls[c].op = "logout"
    /\ calls[c].pc = "first"
    /\ calls[c].auth = "A1"
    /\ localStorage = EmptyStorage
    /\ Anonymous(state)

\* C12 - in every reachable Session State, isAuthenticated implies that user,
\* accessToken and refreshToken are all present.
C12_AuthenticatedHasIdentity ==
  state.isAuthenticated
    => /\ state.user # Null
       /\ state.accessToken # Null
       /\ state.refreshToken # Null

\* C13 - round trip: setTokens sets isAuthenticated at once; when a later
\* refreshUserInfo fails, for whatever reason, Session State is anonymous, the
\* Credential Store is empty and the failure is not propagated to the caller.
C13_AdoptThenFailedRefreshClears ==
  \A c \in Slots :
    /\ ( calls[c].pc = "done" /\ calls[c].op = "otpLogin" /\ calls[c].result.ok )
       => /\ state.isAuthenticated
          /\ adopted
    /\ ( calls[c].pc = "done" /\ calls[c].op = "getCurrentUser"
          /\ ~calls[c].result.ok )
       => /\ Anonymous(state)
          /\ localStorage = EmptyStorage
          /\ calls[c].thrown = NoError

C13_Witness ==
  \E c \in Slots :
    /\ adopted
    /\ calls[c].pc = "done"
    /\ calls[c].op = "getCurrentUser"
    /\ calls[c].auth # Null
    /\ ~calls[c].result.ok
    /\ ~state.isAuthenticated

\* no exchange is put on the network in this step
NothingSent ==
  \A d \in Slots :
    \/ calls'[d].pc \in {"idle", "done"}
    \/ calls'[d] = calls[d]

\* C14 - setTokens(pair, user) sets isAuthenticated and sets user, accessToken
\* and refreshToken to the given values, writes the pair to the Credential
\* Store, issues no network call and leaves isLoading as it is.
C14_SetTokensFrame ==
  [][ \A c \in Slots :
        ( Settles(c) /\ Adopts(calls'[c].op, calls'[c].result) )
        => LET data == calls'[c].result.data
           IN /\ state'.isAuthenticated
              /\ state'.user = data.user
              /\ state'.accessToken = data.access_token
              /\ state'.refreshToken = data.refresh_token
              /\ localStorage' = [access_token |-> data.access_token,
                                   refresh_token |-> data.refresh_token]
              /\ state'.isLoading = state.isLoading
              /\ NothingSent ]_vars

C14_Witness ==
  \E c \in Slots :
    /\ calls[c].pc = "done"
    /\ calls[c].op = "otpLogin"
    /\ calls[c].result.ok
    /\ state.isLoading
    /\ state.isAuthenticated
    /\ state.accessToken = calls[c].result.data.access_token
    /\ localStorage.refresh_token = calls[c].result.data.refresh_token

\* call c is a status query that has just settled
PollSettled(c) == calls[c].pc = "done" /\ calls[c].op = "getQRLoginStatus"

C16_NoCallAfterTeardown ==
  [][ page.component = "unmounted"
      => \A c \in Slots :
           /\ ~Issues(c, "getQRLoginStatus")
           /\ ~Issues(c, "createQRLogin") ]_vars

\* C17 - status queries are issued only while the ceremony is pending or
\* scanned: in every reachable state a live interval implies that the page's
\* status is pending or scanned.
C17_TimerOnlyWhilePendingOrScanned ==
  page.timers # {} => page.status \in {"pending", "scanned"}

\* call c is a status query of a ceremony the mounted page no longer shows
Stale(c) ==
  /\ calls[c].op = "getQRLoginStatus"
  /\ page.component = "mounted"
  /\ SceneOf(calls[c].url) # page.qrData.scene_id

\* C18 - manual refresh discards in-flight polling and restarts from scratch:
\* the step of refreshQR leaves no live interval, clears qrData, sets status
\* to loading and issues one creation call; and the answer to a status query
\* that was issued for the previous ceremony changes neither the page's
\* status, nor its interval, nor Session State.
C18_RefreshDiscardsInFlightPolling ==
  [][ \A c \in Slots :
        /\ ( Issues(c, "createQRLogin") /\ page.component = "mounted" )
           => /\ page'.timers = {}
              /\ page'.intervalRef = Null
              /\ page'.qrData = NoCeremony
              /\ page'.status = "loading"
              /\ \A d \in Slots \ {c} : calls'[d] = Forget(calls[d])
        /\ ( Stale(c) /\ Settles(c) )
           => /\ page'.status = page.status
              /\ page'.timers = page.timers
              /\ page'.intervalRef = page.intervalRef
              /\ state' = state ]_vars

\* C19 - any failure of a status query (an HTTP failure, a timeout, a network
\* failure, a failed recovery of the pipeline) clears the interval and sets
\* the status of the mounted page to expired; the failure reaches nobody else.
C19_PollFailureExpires ==
  \A c \in Slots :
    ( PollSettled(c) /\ ~calls[c].result.ok )
    => /\ page.intervalRef = Null
       /\ page.timers = {}
       /\ page.component = "mounted" => page.status = "expired"
       /\ calls[c].thrown = NoError

C19_Witness ==
  \E c \in Slots :
    /\ PollSettled(c)
    /\ ~calls[c].result.ok
    /\ calls[c].result.error.status = 500
    /\ page.component = "mounted"
    /\ SceneOf(calls[c].url) = page.qrData.scene_id
    /\ page.status = "expired"
    /\ page.timers = {}

\* C20 - on initiation one creation call is made; when it succeeds the page
\* holds the scene_id, qr_url and expires_at of the answer, its status is
\* pending and an interval polling that scene_id is live; when it fails the
\* status is expired and no interval is live; an interval comes to life only
\* with a successful creation, so no status query follows a failed creation
\* until a refresh has created a ceremony.
C20_Initiation ==
  [][ /\ \A c \in Slots :
           /\ ( page.component = "initial" /\ page'.component = "mounted" )
              => /\ \E d \in Slots : Issues(d, "createQRLogin")
                 /\ Issues(c, "createQRLogin")
                    => \A d \in Slots \ {c} : calls'[d] = Forget(calls[d])
           /\ ( calls[c].op = "createQRLogin" /\ Settles(c)
                 /\ page.component = "mounted" /\ calls'[c].result.ok )
              => /\ page'.qrData = calls'[c].result.data.qr
                 /\ page'.status = "pending"
                 /\ page'.intervalRef = calls'[c].result.data.qr.scene_id
                 /\ page'.timers = {calls'[c].result.data.qr.scene_id}
                 /\ ~page'.isCreating
           /\ ( calls[c].op = "createQRLogin" /\ Settles(c)
                 /\ page.component = "mounted" /\ ~calls'[c].result.ok )
              => /\ page'.status = "expired"
                 /\ page'.intervalRef = Null
                 /\ page'.timers = {}
                 /\ ~page'.isCreating
                 /\ calls'[c].thrown = NoError
           /\ Issues(c, "getQRLoginStatus")
              => SceneOf(calls'[c].url) \in page.timers
      /\ ( page.timers = {} /\ page'.timers # {} )
         => \E c \in Slots :
              /\ calls[c].op = "createQRLogin"
              /\ Settles(c)
              /\ calls'[c].result.ok ]_vars

C20_Witness ==
  \E c \in Slots :
    /\ calls[c].pc = "done"
    /\ calls[c].op = "createQRLogin"
    /\ calls[c].result.ok
    /\ page.component = "mounted"
    /\ page.qrData = calls[c].result.data.qr
    /\ page.status = "pending"
    /\ page.timers = {page.qrData.scene_id}

\* C21 - within the login, register and refreshUserInfo flows every failure,
\* a 401 included, is returned to the caller (or, for refreshUserInfo, handled
\* by clearing) without the redirect to the sign-in page: no step of such a
\* call removes the store keys and assigns location.href.
C21_AuthFlowsNeverRedirect ==
  [][ \A c \in Slots :
        ( calls[c].op \in {"login", "register", "getCurrentUser"} /\ Steps(c) )
        => ~calls'[c].redirected ]_vars

\* the promise of call c is pending
InFlight(c) == calls[c].pc \in {"first", "refresh", "retry"}

\* C23 - at any time at most one login or register operation of the store is
\* outstanding.
C23_OneSignInAtATime ==
  \A c, d \in Slots :
    ( /\ InFlight(c) /\ calls[c].op \in {"login", "register"}
      /\ InFlight(d) /\ calls[d].op \in {"login", "register"} )
    => c = d

\* C25 - requests that fail with 401 each run their own recovery cycle: with
\* a refresh token in the store, every 401 of a first attempt to a non-auth
\* endpoint starts one refresh call of its own, also while the refresh call of
\* another request is in flight, and that call carries the refresh token the
\* store holds at the moment the cycle starts.
C25_NoSingleFlightRefresh ==
  [][ \A c \in Slots :
        ( /\ calls[c].pc = "first"
          /\ Steps(c)
          /\ Is401(calls'[c].firstResult)
          /\ ~IsAuthEndpoint(calls[c].url)
          /\ localStorage.refresh_token # Null )
        => /\ calls'[c].pc = "refresh"
           /\ calls'[c].refreshCalls = 1
           /\ calls'[c].refreshWith = localStorage.refresh_token ]_vars

C25_Witness ==
  \E c, d \in Slots :
    /\ c # d
    /\ calls[c].pc = "refresh"
    /\ calls[d].pc = "refresh"
    /\ calls[c].refreshCalls = 1
    /\ calls[d].refreshCalls = 1
    /\ calls[c].refreshWith = "R1"
    /\ calls[d].refreshWith = "R1"

\* C26 - teardown is idempotent: in every state of the page, stopPolling
\* applied twice gives what stopPolling applied once gives, and so does the
\* effect's cleanup; with no interval in intervalRef stopPolling changes
\* nothing; and the step of the cleanup sends nothing.
C26_TeardownIdempotent ==
  [][ /\ stopPolling(stopPolling(page)) = stopPolling(page)
      /\ cleanup(cleanup(page)) = cleanup(page)
      /\ page.intervalRef = Null => stopPolling(page) = page
      /\ ( page.component = "mounted" /\ page'.component = "unmounted" )
         => /\ page' = cleanup(page)
            /\ cleanup(page') = page'
            /\ NothingSent ]_vars

C26_Witness ==
  /\ page.component = "unmounted"
  /\ page.qrData # NoCeremony
  /\ page.intervalRef = Null
  /\ page.timers = {}
  /\ stopPolling(page) = page

\* C28 - in every reachable state the Credential Store holds both an access
\* token and a refresh token or neither, and Session State holds both
\* accessToken and refreshToken or neither.
C28_PairsWhole ==
  /\ localStorage.access_token = Null <=> localStorage.refresh_token = Null
  /\ state.accessToken = Null <=> state.refreshToken = Null

C28_Witness ==
  \E c \in Slots :
    /\ calls[c].pc = "done"
    /\ calls[c].refreshResult.ok
    /\ localStorage = [access_token |-> "A2", refresh_token |-> "R2"]
    /\ state.accessToken = "A1"
    /\ state.refreshToken = "R1"

\* C29 - once the page's status is confirmed, expired or cancelled it changes
\* only when refreshQR restarts the initiation, also when answers to status
\* queries of earlier ticks arrive after the terminal answer was processed.
C29_TerminalStatusStable ==
  [][ ( page.status \in {"confirmed", "expired", "cancelled"}
        /\ page'.status # page.status )
      => /\ page'.status = "loading"
         /\ \E c \in Slots : Issues(c, "createQRLogin") ]_vars

\* C30 - the logout call of useAuthStore.logout is best-effort: whatever its
\* answer, a 401 that arrives after logout returned included, no step of the
\* call propagates a failure, starts a refresh call, assigns location.href or
\* changes the Credential Store.
C30_LogoutCallBestEffort ==
  [][ \A c \in Slots :
        ( calls[c].op = "logout" /\ InFlight(c) /\ Steps(c) )
        => /\ calls'[c].thrown = NoError
           /\ calls'[c].refreshCalls = 0
           /\ ~calls'[c].redirected
           /\ href' = href
           /\ localStorage' = localStorage ]_vars

\* C24 - every issued login or register runs to completion: given that every
\* exchange settles, no login or register stays pending for ever (a pending
\* call leaves its slot only by returning or throwing), and at the moment a
\* login or register completes isLoading is false, whatever the outcome.
C24_SignInCompletes ==
  /\ [](\A c \in Slots :
          ( calls[c].pc = "done" /\ calls[c].op \in {"login", "register"} )
          => ~state.isLoading)
  /\ <>[](\A c \in Slots :
            ~( InFlight(c) /\ calls[c].op \in {"login", "register"} ))

C24_Witness ==
  \E c \in Slots :
    /\ calls[c].pc = "done"
    /\ calls[c].op = "register"
    /\ calls[c].sent = 2
    /\ ~calls[c].result.ok
    /\ ~state.isLoading

\* call c is a login or a register
SignIn(c) == calls[c].op \in {"login", "register"}

C27_ReloadRestoresSession ==
  [][ /\ hydrate(partialize(state)) = [state EXCEPT !.isLoading = FALSE]
      /\ ( \E c \in Slots : calls'[c].pc = "aborted" )
         => /\ state'.user = state.user
            /\ state'.accessToken = state.accessToken
            /\ state'.refreshToken = state.refreshToken
            /\ state'.isAuthenticated = state.isAuthenticated
            /\ ~state'.isLoading
            /\ localStorage' = localStorage ]_vars

C27_Witness ==
  \E c \in Slots :
    /\ calls[c].pc = "aborted"
    /\ SignIn(c)
    /\ state.isAuthenticated
    /\ state.user = "u8"
    /\ state.accessToken = "A2"
    /\ state.refreshToken = "R2"
    /\ ~state.isLoading

\* the pair of a token answer
PairOf(data) ==
  [access_token |-> data.access_token, refresh_token |-> data.refresh_token]

\* C31 - localStorage is written without locking and the last writer wins:
\* every write of a recovery cycle or of login/register sets the store to
\* exactly what that write carries, whatever the other calls in flight wrote
\* before, and nothing else changes the store; a cycle whose refresh fails
\* after the refresh of another cycle succeeded leaves the store empty.
C31_LastWriterWins ==
  [][ /\ \A c \in Slots :
           /\ ( calls[c].pc = "refresh" /\ Steps(c) /\ ~calls'[c].refreshResult.ok )
              => localStorage' = EmptyStorage
           /\ ( calls[c].pc = "refresh" /\ Steps(c) /\ calls'[c].refreshResult.ok )
              => localStorage' = PairOf(calls'[c].refreshResult.data)
           /\ ( SignIn(c) /\ Settles(c) /\ calls'[c].result.ok )
              => localStorage' = PairOf(calls'[c].result.data)
      /\ localStorage' # localStorage
           => \E c \in Slots :
                /\ Steps(c)
                /\ \/ calls'[c].redirected
                   \/ calls[c].pc = "refresh" /\ calls'[c].refreshResult.ok
                   \/ SignIn(c) /\ Settles(c) /\ calls'[c].result.ok ]_vars

C31_Witness ==
  \E c, d \in Slots :
    /\ calls[c].pc = "retry"
    /\ calls[c].refreshResult.ok
    /\ calls[d].pc = "done"
    /\ calls[d].refreshCalls = 1
    /\ ~calls[d].refreshResult.ok
    /\ localStorage = EmptyStorage

\* the answer to a status query that ends the polling
Terminal(result) ==
  \/ ~result.ok
  \/ IsConfirmedWithToken(result.data)
  \/ result.data.status \in {"expired", "cancelled"}

\* C32 - the page never stops polling on its own: apart from the cleanup and
\* refreshQR, an interval is cleared only in the step that processes a status
\* answer of confirmed with a token, expired or cancelled, or a failed status
\* query; an answer of pending or scanned leaves the interval as it is, and
\* as long as an interval is live a further status query can be issued,
\* whatever expires_at says.
C32_PollsUntilTerminalAnswer ==
  /\ []( ( page.timers # {} /\ issued < MaxPageCalls /\ \E c \in Slots : Free(c) )
         => ENABLED ( \E c \in Slots : tick(c) ) )
  /\ [][ /\ ( \E sceneId \in page.timers : sceneId \notin page'.timers )
            => \/ page'.component = "unmounted"
               \/ \E c \in Slots : Issues(c, "createQRLogin")
               \/ \E c \in Slots :
                    /\ Settles(c)
                    /\ calls'[c].op = "getQRLoginStatus"
                    /\ Terminal(calls'[c].result)
         /\ \A c \in Slots :
              ( /\ Settles(c)
                /\ calls'[c].op = "getQRLoginStatus"
                /\ ~Terminal(calls'[c].result) )
              => /\ page'.timers = page.timers
                 /\ page'.intervalRef = page.intervalRef ]_vars

C32_Witness ==
  \E c \in Slots :
    /\ PollSettled(c)
    /\ calls[c].result.ok
    /\ calls[c].result.data.status \in {"pending", "scanned"}
    /\ page.status = calls[c].result.data.status
    /\ page.timers = {page.qrData.scene_id}
    /\ page.qrData.expires_at # Null
    /\ issued = MaxPageCalls

\* C33 - in every reachable state at most one interval is live, and a live
\* interval queries the scene_id of the ceremony the page holds in qrData.
C33_OneTimerForHeldCeremony ==
  /\ Cardinality(page.timers) <= 1
  /\ page.timers # {} => page.timers = {page.qrData.scene_id}

\* the exchanges a call can still make from where it stands
Remaining(call) ==
  CASE call.pc = "first" -> 3
    [] call.pc = "refresh" -> 2
    [] call.pc = "retry" -> 1
    [] OTHER -> 0

\* C34 - every pipeline call terminates after at most three exchanges: the
\* original request is sent at most twice and the refresh endpoint is called
\* at most once per call, every answer brings the call strictly closer to its
\* end, and, every exchange resolving or timing out, every call settles.
C34_AtMostThreeExchanges ==
  /\ [](\A c \in Slots :
          /\ calls[c].sent <= 2
          /\ calls[c].refreshCalls <= 1
          /\ InFlight(c) => calls[c].sent + calls[c].refreshCalls = 4 - Remaining(calls[c]))
  /\ [][ \A c \in Slots :
           ( InFlight(c) /\ Steps(c) ) => Remaining(calls'[c]) < Remaining(calls[c]) ]_vars
  /\ <>[](\A c \in Slots : ~InFlight(c))

C34_Witness ==
  \E c \in Slots :
    /\ calls[c].pc = "done"
    /\ calls[c].op = "register"
    /\ calls[c].sent = 2
    /\ calls[c].refreshCalls = 1
    /\ calls[c].retryResult.ok

\* C35 - a successful refreshUserInfo sets user to the record of the answer,
\* whatever user was before, and leaves accessToken, refreshToken,
\* isAuthenticated and isLoading, the Credential Store and the location as
\* they are.
C35_RefreshUserInfoReplacesUser ==
  [][ \A c \in Slots :
        ( /\ Settles(c)
          /\ calls'[c].op = "getCurrentUser"
          /\ calls'[c].result.ok )
        => /\ state' = [state EXCEPT !.user = calls'[c].result.data.user]
           /\ localStorage' = localStorage
           /\ href' = href
           /\ calls'[c].thrown = NoError ]_vars

C35_Witness ==
  \E c \in Slots :
    /\ calls[c].pc = "done"
    /\ calls[c].op = "getCurrentUser"
    /\ calls[c].result.ok
    /\ calls[c].result.data.user = "u8"
    /\ state = [user |-> "u8", accessToken |-> "A1", refreshToken |-> "R1",
                isAuthenticated |-> TRUE, isLoading |-> FALSE]

\* C36 - whenever no operation is in flight, the tokens of the state and
\* localStorage agree: both absent, or both present and the same pair; in
\* particular isAuthenticated implies that localStorage holds a pair.
C36_StateAgreesWithStore ==
  ( \A c \in Slots : ~InFlight(c) )
  => /\ state.accessToken = localStorage.access_token
     /\ state.refreshToken = localStorage.refresh_token
     /\ state.isAuthenticated
          => /\ localStorage.access_token # Null
             /\ localStorage.refresh_token # Null

\* nobody is signed in: no user, no tokens, not authenticated
SignedOut(st) ==
  /\ st.user = Null
  /\ st.accessToken = Null
  /\ st.refreshToken = Null
  /\ ~st.isAuthenticated

\* C37 - after logout the state stays signed out and localStorage stays empty
\* until an operation issued after that logout succeeds: the late completion
\* of a call that was already in flight when logout ran changes neither.
C37_LateCompletionStaysSignedOut ==
  [][ \A c \in Slots :
        ( /\ calls[c].signedOut
          /\ Steps(c)
          /\ SignedOut(state)
          /\ localStorage = EmptyStorage )
        => /\ SignedOut(state')
           /\ localStorage' = EmptyStorage ]_vars

\* C38 - whenever isAuthenticated is false, user is absent: after logout or
\* clearAuth user stays absent until a later login, register or setTokens
\* succeeds, also when a refreshUserInfo that was in flight at the time of the
\* clearing completes successfully afterwards.
C38_NoUserUnlessAuthenticated ==
  ~state.isAuthenticated => state.user = Null

\* a status query of the page that has not been answered yet
PollInFlight(c) == InFlight(c) /\ calls[c].op = "getQRLoginStatus"

\* C39 - at most one status query of the page is in flight at any time: an
\* interval does not issue a status query while the query of an earlier tick
\* is still unanswered.
C39_OneStatusQueryAtATime ==
  \A c, d \in Slots : ( PollInFlight(c) /\ PollInFlight(d) ) => c = d

\* C40 - a request of an earlier session does not damage a later one: when a
\* request that was in flight when logout cleared the session is answered
\* with 401 after a later sign-in has succeeded, its recovery cycle does not
\* send the refresh token of the new session, does not empty localStorage and
\* does not assign location.href.
C40_OldRequestSparesNewSession ==
  [][ \A c \in Slots :
        ( /\ calls[c].signedOut
          /\ Steps(c)
          /\ Is401(calls'[c].firstResult)
          /\ state.isAuthenticated
          /\ localStorage # EmptyStorage )
        => /\ calls'[c].refreshWith # localStorage.refresh_token
           /\ localStorage' # EmptyStorage
           /\ href' = href
           /\ ~calls'[c].redirected ]_vars

====
